---- MODULE Spec2Model ----
(***************************************************************************)
(* Market-data core of EQ_Dashboard: the feed byte-stream reassembler and  *)
(* feed connections of MotilalService, the subscription registry of        *)
(* EnhancedWebSocketManager and the distribution logic of                  *)
(* MarketDataService.                                                      *)
(*                                                                         *)
(* Python dicts are functions whose DOMAIN is the set of keys; Python sets *)
(* are sets.  A coroutine is a record holding its position (pc) and its    *)
(* locals; one action runs it from one suspension point (an await that     *)
(* really suspends: a socket send, a database commit) to the next.         *)
(***************************************************************************)
EXTENDS Integers, Sequences, FiniteSets, TLC

\* ------------------------------------------------------------------ bounds

\* Longest packet list handed to handle_market_data in one call.
MaxBatch == 1

\* Most feed bytes one connection delivers.
MaxFeedBytes == 62

\* Most WebSocketApp objects created in one run.
MaxSockets == 2

\* Most frames sent on one feed connection.
MaxSent == 2

\* Most bytes the connections deliver together while their threads interleave.
MaxThreadBytes == 33

\* Most loop tasks the scheduler creates, and most iterations of one loop.
MaxTasks == 3
MaxIterations == 2

\* ----------------------------------------------------- program constants

\* MotilalService.response_packet_length
ResponsePacketLength == 30

\* The queue size at which _process_websocket_message drains a packet.
PartialPacketLength == 30

\* ------------------------------------------------------------ universe

\* Broker accounts (Client.motilal_client_id), one feed connection each.
FeedAccounts == {"A1", "A2"}

\* str(error) of the errors the feed transport reports to on_error.
Errors == {"timed out", "Connection to remote host was lost.",
           "Handshake status 401 Unauthorized"}

\* Lengths of the messages the feed transport hands to on_message.
ChunkSizes == {1, 29, 30, 31, 60}

\* Lengths of the messages when several connections deliver.
SharedChunkSizes == {29, 30, 31}

\* Feed bytes that are not valid UTF-8 on their own (0x80 and above): the
\* first byte of every connection's stream.
BadBytes == {<<a, 1>> : a \in FeedAccounts}

\* A header byte with no UTF-8 decoding.
Undecodable == "0xFF"

\* Exchange codes in the first byte of a feed packet; "X" is in no table.
ExchangeCodes == {"N", "B", "M", "D", "C", "G", "X"}

\* Scrip codes in bytes 1..4 of a feed packet (signed), around the limits of
\* the NSE ranges.
ScripCodes == {-1, 34999, 35000, 888800, 888801, 888820, 888821}

\* Message types in byte 9 of a feed packet; "Z" is dispatched nowhere.
MsgTypes == {"A", "B", "C", "D", "E", "F", "G", "1", "Z"}

\* The decoded header fields of the 30-byte packets of the feed.
Headers == [exchange : ExchangeCodes, scrip : ScripCodes, msg_type : MsgTypes]

\* Messages of two packets: a first packet that is undecodable, of a type
\* dispatched nowhere, a heartbeat or an LTP packet, then any of these.
PairHeaders ==
    { [exchange |-> Undecodable, scrip |-> 34999, msg_type |-> "A"],
      [exchange |-> "N", scrip |-> 34999, msg_type |-> "Z"],
      [exchange |-> "N", scrip |-> 34999, msg_type |-> "1"],
      [exchange |-> "N", scrip |-> 35000, msg_type |-> "A"] }

\* The messages handed to _parse_websocket_packets, as lists of headers.
FeedMessages ==
    {<<h>> : h \in Headers} \cup {<<g, h>> : g \in PairHeaders, h \in PairHeaders}

\* End-user websocket client ids (keys of active_connections).
Clients == {"u1", "u2"}

\* Active rows of the tokens table: token_id (scrip code) -> symbol.
DbTokens == (2885 :> "RELIANCE") @@ (1594 :> "INFY")

Symbols == {DbTokens[s] : s \in DOMAIN DbTokens}

\* Symbols a caller may name; "ZZZ" is in no table.
AskedSymbols == Symbols \cup {"ZZZ"}

\* No value (Python None).
None == "None"

\* The orders in which list(a_set) may enumerate the clients.
ClientOrders == {<<"u1", "u2">>, <<"u2", "u1">>}

\* Packets delivered to handle_market_data.  A packet is a dict; one of
\* them names a scrip code outside the token cache.
FeedPackets ==
    { [scrip_code |-> 2885, type |-> "LTP", ltp_rate |-> 100],
      [scrip_code |-> 2885, type |-> "LTP", ltp_rate |-> 0],
      [scrip_code |-> 1594, type |-> "MarketDepth"],
      [scrip_code |-> 2885, type |-> "DayOHLC", prev_close |-> 100],
      [scrip_code |-> 9999, type |-> "LTP", ltp_rate |-> 100] }

RECURSIVE SeqsUpTo(_, _)
SeqsUpTo(S, n) ==
    IF n = 0 THEN {<<>>}
    ELSE LET shorter == SeqsUpTo(S, n - 1)
         IN shorter \cup {Append(q, x) : q \in {r \in shorter : Len(r) = n - 1}, x \in S}

Batches == SeqsUpTo(FeedPackets, MaxBatch) \ {<<>>}

\* An LTP packet whose 'ltp_rate' key holds None.
RatelessPacket == [scrip_code |-> 2885, type |-> "LTP", ltp_rate |-> None]

\* Batches of three packets with the rateless packet in the middle.
FaultyBatches ==
    {<<p, RatelessPacket, q>> :
        p \in {x \in FeedPackets : x.type = "LTP"}, q \in FeedPackets}

\* ------------------------------------------------------------------ state

VARIABLES
    active_connections,    \* EnhancedWebSocketManager: client ids with a socket
    client_subscriptions,  \* EnhancedWebSocketManager: client id -> set of symbols
    token_subscribers,     \* EnhancedWebSocketManager: symbol -> set of client ids
    token_cache,           \* MarketDataService: scrip code -> symbol
    last_prices,           \* MarketDataService: symbol -> price
    hm,                    \* the running handle_market_data coroutine
    sub,                   \* the running subscribe_client_to_token coroutine
    ws_connections,        \* MotilalService: account id -> its WebSocketApp
    sockets,               \* every WebSocketApp created so far, by creation order
    terminated,            \* close_websocket_connections has been called
    message_queue,         \* MotilalService: the Queue of buffered feed bytes
    received,              \* account id -> number of feed bytes delivered so far
    frames,                \* the 30-byte packets handed to the decoder, in order
    decoded,               \* the packets decoded and passed on, in order
    parsed,                \* the last _parse_websocket_packets: its message, the
                           \* calls it made, the socket whose thread ran it (0: none)
    packed,                \* the last request packet packed: the method, its
                           \* arguments and the bytes of the packet
    threads,               \* account id -> the _process_websocket_message call
                           \* running on the thread of the account's connection
    ba,                    \* the running broadcast_to_all coroutine
    pp,                    \* the running periodic_price_updates coroutine
    sched                  \* BackgroundScheduler: running, its two task
                           \* attributes and every loop task created so far

\* The feed connections.
sessVars == <<ws_connections, sockets, terminated>>

\* The feed byte stream.
\* The variables of the parts modelled for one claim each.
auxVars == <<packed, threads, ba, pp, sched>>

feedVars == <<message_queue, received, frames, decoded, parsed, auxVars>>

vars == <<active_connections, client_subscriptions, token_subscribers,
          token_cache, last_prices, hm, sub, ws_connections, sockets,
          terminated, message_queue, received, frames, decoded, parsed,
          packed, threads, ba, pp, sched>>

\* ------------------------------------------------------------- dict helpers

EmptyDict == <<>>

DictSet(d, k, v) == [x \in DOMAIN d \cup {k} |-> IF x = k THEN v ELSE d[x]]

DictDel(d, k) == [x \in DOMAIN d \ {k} |-> d[x]]

\* dict.get(k, default)
DictGet(d, k, default) == IF k \in DOMAIN d THEN d[k] ELSE default

\* ------------------------------------------------ subscription registry

\* The registry part of the manager as one value.
Registry ==
    [active_connections |-> active_connections,
     client_subscriptions |-> client_subscriptions,
     token_subscribers |-> token_subscribers]

\* subscribe_to_token written with the add in an else branch.
SubscribeToTokenElse(r, client_id, token_symbol) ==
    LET cs == IF client_id \notin DOMAIN r.client_subscriptions
              THEN DictSet(r.client_subscriptions, client_id, {})
              ELSE DictSet(r.client_subscriptions, client_id,
                           r.client_subscriptions[client_id] \cup {token_symbol})
        ts0 == IF token_symbol \notin DOMAIN r.token_subscribers
               THEN DictSet(r.token_subscribers, token_symbol, {})
               ELSE r.token_subscribers
    IN [r EXCEPT !.client_subscriptions = cs,
                 !.token_subscribers =
                     DictSet(ts0, token_symbol, ts0[token_symbol] \cup {client_id})]

\* EnhancedWebSocketManager.subscribe_to_token
SubscribeToToken(r, client_id, token_symbol) ==
    LET cs0 == IF client_id \notin DOMAIN r.client_subscriptions
               THEN DictSet(r.client_subscriptions, client_id, {})
               ELSE r.client_subscriptions
        cs1 == DictSet(cs0, client_id, cs0[client_id] \cup {token_symbol})
        ts0 == IF token_symbol \notin DOMAIN r.token_subscribers
               THEN DictSet(r.token_subscribers, token_symbol, {})
               ELSE r.token_subscribers
        ts1 == DictSet(ts0, token_symbol, ts0[token_symbol] \cup {client_id})
    IN [r EXCEPT !.client_subscriptions = cs1, !.token_subscribers = ts1]

\* EnhancedWebSocketManager.unsubscribe_from_token
UnsubscribeFromToken(r, client_id, token_symbol) ==
    LET cs1 == IF client_id \in DOMAIN r.client_subscriptions
               THEN DictSet(r.client_subscriptions, client_id,
                            r.client_subscriptions[client_id] \ {token_symbol})
               ELSE r.client_subscriptions
        ts1 == IF token_symbol \in DOMAIN r.token_subscribers
               THEN LET left == r.token_subscribers[token_symbol] \ {client_id}
                    IN IF left = {}
                       THEN DictDel(r.token_subscribers, token_symbol)
                       ELSE DictSet(r.token_subscribers, token_symbol, left)
               ELSE r.token_subscribers
    IN [r EXCEPT !.client_subscriptions = cs1, !.token_subscribers = ts1]

\* What subscribe_to_token hands back to its caller: the method ends with
\* its logger.info call and has no return statement.
SubscribeToTokenReturn(r, client_id, token_symbol) == None

\* What unsubscribe_from_token hands back to its caller: no return statement.
UnsubscribeFromTokenReturn(r, client_id, token_symbol) == None

\* The loop of disconnect over the client's symbols: discard the client
\* from each symbol's set and delete the sets that become empty.
RECURSIVE DiscardFromTokens(_, _, _)
DiscardFromTokens(ts, client_id, symbols) ==
    IF symbols = {} THEN ts
    ELSE LET s == CHOOSE x \in symbols : TRUE
             ts1 == IF s \in DOMAIN ts
                    THEN IF ts[s] \ {client_id} = {}
                         THEN DictDel(ts, s)
                         ELSE DictSet(ts, s, ts[s] \ {client_id})
                    ELSE ts
         IN DiscardFromTokens(ts1, client_id, symbols \ {s})

\* EnhancedWebSocketManager.disconnect
Disconnect(r, client_id) ==
    IF client_id \in r.active_connections
    THEN [active_connections |-> r.active_connections \ {client_id},
          client_subscriptions |-> DictDel(r.client_subscriptions, client_id),
          token_subscribers |->
              DiscardFromTokens(r.token_subscribers, client_id,
                                DictGet(r.client_subscriptions, client_id, {}))]
    ELSE r

\* EnhancedWebSocketManager.connect
Connect(r, client_id) ==
    [r EXCEPT !.active_connections = r.active_connections \cup {client_id},
              !.client_subscriptions = DictSet(r.client_subscriptions, client_id, {})]

\* EnhancedWebSocketManager.disconnect_all over the clients still to close:
\* each socket is closed and the client disconnected.
RECURSIVE DisconnectAll(_, _)
DisconnectAll(r, client_ids) ==
    IF client_ids = {} THEN r
    ELSE LET c == CHOOSE x \in client_ids : TRUE
         IN DisconnectAll(Disconnect(r, c), client_ids \ {c})

SetRegistry(r) ==
    /\ active_connections' = r.active_connections
    /\ client_subscriptions' = r.client_subscriptions
    /\ token_subscribers' = r.token_subscribers

\* ------------------------------------------------------ distribution engine

\* list(a_set), enumerated in the order ord.
ListOf(set, ord) == SelectSeq(ord, LAMBDA c : c \in set)

\* broadcast_to_clients, from the top of its loop to the next send_text:
\* clients without a socket are skipped; 'to' is the client whose send is
\* awaited next (None when the list is exhausted), 'rest' the clients after it.
RECURSIVE NextActive(_, _)
NextActive(list, ac) ==
    IF list = <<>> THEN [to |-> None, rest |-> <<>>]
    ELSE IF Head(list) \in ac THEN [to |-> Head(list), rest |-> Tail(list)]
    ELSE NextActive(Tail(list), ac)

\* The symbol handle_market_data resolves for a packet, None when the packet
\* has no scrip code or the token cache does not hold it.
SymbolOf(tc, packet) ==
    IF "scrip_code" \in DOMAIN packet /\ packet.scrip_code \in DOMAIN tc
    THEN tc[packet.scrip_code]
    ELSE None

\* Packets handle_market_data cannot resolve: an empty dict, a dict without
\* 'scrip_code', a scrip code that is not in the token cache.
UnresolvablePackets ==
    { EmptyDict,
      [type |-> "LTP", ltp_rate |-> 100],
      [scrip_code |-> 9999, type |-> "LTP", ltp_rate |-> 100] }

\* Batches of three packets with an unresolvable packet in the middle.
SkipBatches ==
    {<<p, u, q>> :
        p \in {x \in FeedPackets : x.type = "LTP"},
        u \in UnresolvablePackets, q \in FeedPackets}

\* 'new_price > 0' raises TypeError when new_price is not a number.
ComparisonRaises(new_price) == ToString(new_price) = ToString(None)

HmIdle == [pc |-> "idle", packets |-> <<>>, symbol |-> None, to |-> None, rest |-> <<>>]

SubIdle == [pc |-> "idle", client_id |-> None, token_symbol |-> None,
            to |-> None, rest |-> <<>>]

\* handle_market_data from the top of its packet loop (HmLoop), and from its
\* call of broadcast_market_data for the first packet of 'packets'
\* (HmBroadcast), up to the next suspension: the new coroutine state and the
\* new price cache.  An exception raised for a packet is caught by the except
\* clause around the packet loop, which logs it; the call then returns.
RECURSIVE HmLoop(_, _, _, _, _, _)
RECURSIVE HmBroadcast(_, _, _, _, _, _, _)
\* The packet loop leaving at a packet it cannot resolve ('break' where the
\* code has 'continue').
HmLoopBreak(packets, tc, lp, ts, ac, ord) ==
    IF packets = <<>> THEN [hm |-> HmIdle, last_prices |-> lp]
    ELSE LET packet == Head(packets)
             symbol == SymbolOf(tc, packet)
         IN IF symbol = None
            THEN [hm |-> HmIdle, last_prices |-> lp]
            ELSE IF packet.type = "LTP"
                    /\ ComparisonRaises(DictGet(packet, "ltp_rate", 0))
            THEN [hm |-> HmIdle, last_prices |-> lp]
            ELSE IF packet.type = "LTP" /\ DictGet(packet, "ltp_rate", 0) > 0
            THEN [hm |-> [pc |-> "db", packets |-> packets, symbol |-> symbol,
                          to |-> None, rest |-> <<>>],
                  last_prices |-> DictSet(lp, symbol, packet.ltp_rate)]
            ELSE HmBroadcast(packets, symbol, tc, lp, ts, ac, ord)

HmLoop(packets, tc, lp, ts, ac, ord) ==
    IF packets = <<>> THEN [hm |-> HmIdle, last_prices |-> lp]
    ELSE LET packet == Head(packets)
             symbol == SymbolOf(tc, packet)
         IN IF symbol = None
            THEN HmLoop(Tail(packets), tc, lp, ts, ac, ord)
            ELSE IF packet.type = "LTP"
                    /\ ComparisonRaises(DictGet(packet, "ltp_rate", 0))
            THEN [hm |-> HmIdle, last_prices |-> lp]
            ELSE IF packet.type = "LTP" /\ DictGet(packet, "ltp_rate", 0) > 0
            THEN [hm |-> [pc |-> "db", packets |-> packets, symbol |-> symbol,
                          to |-> None, rest |-> <<>>],
                  last_prices |-> DictSet(lp, symbol, packet.ltp_rate)]
            ELSE HmBroadcast(packets, symbol, tc, lp, ts, ac, ord)

\* broadcast_market_data without the look-up of the symbol's subscribers:
\* the message goes to every connected client.
HmBroadcastAll(packets, symbol, tc, lp, ts, ac, ord) ==
    LET n == NextActive(ord, ac)
    IN IF n.to = None
       THEN HmLoop(Tail(packets), tc, lp, ts, ac, ord)
       ELSE [hm |-> [pc |-> "send", packets |-> packets, symbol |-> symbol,
                     to |-> n.to, rest |-> n.rest],
             last_prices |-> lp]

HmBroadcast(packets, symbol, tc, lp, ts, ac, ord) ==
    IF symbol \notin DOMAIN ts
    THEN HmLoop(Tail(packets), tc, lp, ts, ac, ord)
    ELSE LET n == NextActive(ListOf(ts[symbol], ord), ac)
         IN IF n.to = None
            THEN HmLoop(Tail(packets), tc, lp, ts, ac, ord)
            ELSE [hm |-> [pc |-> "send", packets |-> packets, symbol |-> symbol,
                          to |-> n.to, rest |-> n.rest],
                  last_prices |-> lp]

\* A send_text that raised: broadcast_to_clients disconnects the client.
AfterSend(r, to, ok) == IF ok THEN r ELSE Disconnect(r, to)

\* ---------------------------------------------------------------- actions

connect(client_id) ==
    /\ SetRegistry(Connect(Registry, client_id))
    /\ UNCHANGED <<token_cache, last_prices, hm, sub, sessVars, feedVars>>

disconnect(client_id) ==
    /\ SetRegistry(Disconnect(Registry, client_id))
    /\ UNCHANGED <<token_cache, last_prices, hm, sub, sessVars, feedVars>>

subscribe_to_token(client_id, token_symbol) ==
    /\ SetRegistry(SubscribeToToken(Registry, client_id, token_symbol))
    /\ UNCHANGED <<token_cache, last_prices, hm, sub, sessVars, feedVars>>

unsubscribe_from_token(client_id, token_symbol) ==
    /\ SetRegistry(UnsubscribeFromToken(Registry, client_id, token_symbol))
    /\ UNCHANGED <<token_cache, last_prices, hm, sub, sessVars, feedVars>>

\* MarketDataService.update_token_cache: one pass of its loop.
update_token_cache ==
    /\ token_cache' = DbTokens
    /\ UNCHANGED <<active_connections, client_subscriptions, token_subscribers,
                   last_prices, hm, sub, sessVars, feedVars>>

\* MarketDataService.handle_market_data, from its call to its first suspension.
handle_market_data(packets, ord) ==
    /\ hm.pc = "idle"
    /\ LET r == HmLoop(packets, token_cache, last_prices, token_subscribers,
                       active_connections, ord)
       IN hm' = r.hm /\ last_prices' = r.last_prices
    /\ UNCHANGED <<active_connections, client_subscriptions, token_subscribers,
                   token_cache, sub, sessVars, feedVars>>

\* handle_market_data resumed after update_token_price_in_db.
hm_db_done(ord) ==
    /\ hm.pc = "db"
    /\ LET r == HmBroadcast(hm.packets, hm.symbol, token_cache, last_prices,
                            token_subscribers, active_connections, ord)
       IN hm' = r.hm /\ last_prices' = r.last_prices
    /\ UNCHANGED <<active_connections, client_subscriptions, token_subscribers,
                   token_cache, sub, sessVars, feedVars>>

\* handle_market_data resumed after a send_text of broadcast_to_clients
\* (ok: it returned; otherwise it raised).
hm_send_done(ok, ord) ==
    /\ hm.pc = "send"
    /\ LET r1 == AfterSend(Registry, hm.to, ok)
           n == NextActive(hm.rest, r1.active_connections)
           r == IF n.to # None
                THEN [hm |-> [hm EXCEPT !.to = n.to, !.rest = n.rest],
                      last_prices |-> last_prices]
                ELSE HmLoop(Tail(hm.packets), token_cache, last_prices,
                            r1.token_subscribers, r1.active_connections, ord)
       IN /\ SetRegistry(r1)
          /\ hm' = r.hm
          /\ last_prices' = r.last_prices
    /\ UNCHANGED <<token_cache, sub, sessVars, feedVars>>

\* MarketDataService.subscribe_client_to_token, from its call to its first
\* suspension (or to its return).
subscribe_client_to_token(client_id, token_symbol, ord) ==
    /\ sub.pc = "idle"
    /\ IF \A s \in DOMAIN token_cache : token_cache[s] # token_symbol
       THEN UNCHANGED <<active_connections, client_subscriptions,
                        token_subscribers, sub>>
       ELSE LET r1 == SubscribeToToken(Registry, client_id, token_symbol)
                n == IF token_symbol \in DOMAIN last_prices
                        /\ token_symbol \in DOMAIN r1.token_subscribers
                     THEN NextActive(ListOf(r1.token_subscribers[token_symbol], ord),
                                     r1.active_connections)
                     ELSE [to |-> None, rest |-> <<>>]
            IN /\ SetRegistry(r1)
               /\ sub' = IF n.to = None THEN SubIdle
                         ELSE [pc |-> "send", client_id |-> client_id,
                               token_symbol |-> token_symbol,
                               to |-> n.to, rest |-> n.rest]
    /\ UNCHANGED <<token_cache, last_prices, hm, sessVars, feedVars>>

\* subscribe_client_to_token resumed after a send_text of broadcast_to_clients.
sub_send_done(ok) ==
    /\ sub.pc = "send"
    /\ LET r1 == AfterSend(Registry, sub.to, ok)
           n == NextActive(sub.rest, r1.active_connections)
       IN /\ SetRegistry(r1)
          /\ sub' = IF n.to = None THEN SubIdle
                    ELSE [sub EXCEPT !.to = n.to, !.rest = n.rest]
    /\ UNCHANGED <<token_cache, last_prices, hm, sessVars, feedVars>>

\* --------------------------------------------------------- broadcast_to_all

\* The feed byte stream and the feed connections: untouched by the
\* coroutines of the web socket manager and of the price poll.
feedCore == <<message_queue, received, frames, decoded, parsed, packed, threads>>

BaIdle == [pc |-> "idle", used |-> 0, seen |-> {}, to |-> None,
           disconnected_clients |-> {}]

\* EnhancedWebSocketManager.broadcast_to_all, from its call to its first
\* send_text: the loop iterates active_connections.items() itself, and the
\* iterator remembers the size of the dict ('used').  With no client
\* connected the call returns at once.
broadcast_to_all(ord) ==
    /\ ba.pc \in {"idle", "raised"}
    /\ active_connections # {}
    /\ ba' = [pc |-> "send", used |-> Cardinality(active_connections),
              seen |-> {}, to |-> Head(ListOf(active_connections, ord)),
              disconnected_clients |-> {}]
    /\ UNCHANGED <<active_connections, client_subscriptions, token_subscribers,
                   token_cache, last_prices, hm, sub, sessVars, feedCore, pp, sched>>

\* broadcast_to_all resumed after a send_text (ok: it returned; otherwise it
\* raised and the client is noted).  The next step of the dict iterator
\* raises RuntimeError when the size of the dict is no longer 'used', and
\* nothing in broadcast_to_all catches it ("raised"); otherwise it yields a
\* client not yielded yet, and at its end the noted clients are disconnected.
ba_send_done(ok, ord) ==
    /\ ba.pc = "send"
    /\ LET noted == IF ok THEN ba.disconnected_clients
                    ELSE ba.disconnected_clients \cup {ba.to}
           seen == ba.seen \cup {ba.to}
           left == ListOf(active_connections \ seen, ord)
       IN IF Cardinality(active_connections) # ba.used
          THEN /\ ba' = [ba EXCEPT !.pc = "raised", !.seen = seen,
                                   !.disconnected_clients = noted]
               /\ UNCHANGED <<active_connections, client_subscriptions,
                              token_subscribers>>
          ELSE IF left # <<>>
          THEN /\ ba' = [ba EXCEPT !.seen = seen, !.to = Head(left),
                                   !.disconnected_clients = noted]
               /\ UNCHANGED <<active_connections, client_subscriptions,
                              token_subscribers>>
          ELSE /\ ba' = BaIdle
               /\ SetRegistry(DisconnectAll(Registry, noted))
    /\ UNCHANGED <<token_cache, last_prices, hm, sub, sessVars, feedCore, pp, sched>>

\* --------------------------------------------------- periodic price updates

PpIdle == [pc |-> "idle", token_symbol |-> None, to |-> None, rest |-> <<>>]

\* The answers of get_ltp_data: a status and the last traded price in paisa
\* (whole rupees).
Quotes ==
    {[status |-> st, ltp |-> l] :
        st \in {"SUCCESS", "FAILED"}, l \in {-100, 0, 10000, 25000}}

\* The write of a polled price without the test 'ltp > 0'.
PollWriteAlways(lp, token_symbol, ltp) == DictSet(lp, token_symbol, ltp)

\* if ltp > 0: self.last_prices[token_symbol] = ltp
PollWrite(lp, token_symbol, ltp) ==
    IF ltp > 0 THEN DictSet(lp, token_symbol, ltp) ELSE lp

\* periodic_price_updates resumed after get_ltp_data for a token symbol of its
\* pass that the token cache holds, up to the first send_text of the
\* broadcast (or to the end of the iteration).
periodic_price_updates(token_symbol, quote, ord) ==
    /\ pp.pc = "idle"
    /\ \E s \in DOMAIN token_cache : token_cache[s] = token_symbol
    /\ LET ltp == quote.ltp \div 100
           n == IF quote.status = "SUCCESS" /\ ltp > 0
                   /\ token_symbol \in DOMAIN token_subscribers
                THEN NextActive(ListOf(token_subscribers[token_symbol], ord),
                                active_connections)
                ELSE [to |-> None, rest |-> <<>>]
       IN /\ last_prices' = IF quote.status = "SUCCESS"
                            THEN PollWrite(last_prices, token_symbol, ltp)
                            ELSE last_prices
          /\ pp' = IF n.to = None THEN PpIdle
                   ELSE [pc |-> "send", token_symbol |-> token_symbol,
                         to |-> n.to, rest |-> n.rest]
    /\ UNCHANGED <<active_connections, client_subscriptions, token_subscribers,
                   token_cache, hm, sub, sessVars, feedCore, ba, sched>>

\* periodic_price_updates resumed after a send_text of broadcast_to_clients.
pp_send_done(ok) ==
    /\ pp.pc = "send"
    /\ LET r1 == AfterSend(Registry, pp.to, ok)
           n == NextActive(pp.rest, r1.active_connections)
       IN /\ SetRegistry(r1)
          /\ pp' = IF n.to = None THEN PpIdle
                   ELSE [pp EXCEPT !.to = n.to, !.rest = n.rest]
    /\ UNCHANGED <<token_cache, last_prices, hm, sub, sessVars, feedCore, ba, sched>>

\* Batches of one LTP packet.
PollBatches == {<<p>> : p \in {x \in FeedPackets : x.type = "LTP"}}

\* ------------------------------------------------------------- scheduler

\* A loop task created by asyncio.create_task.  state: "running", "finished"
\* (its loop ended by itself), "cancelled" (ended by cancel()).
LoopTask(kind) == [kind |-> kind, state |-> "running", iterations |-> 0]

\* task.cancel() followed by 'await task' for the task attribute t (0: None).
Cancel(tasks, t) ==
    IF t # 0 /\ tasks[t].state = "running"
    THEN [tasks EXCEPT ![t].state = "cancelled"]
    ELSE tasks

UnchangedButSched ==
    UNCHANGED <<active_connections, client_subscriptions, token_subscribers,
                token_cache, last_prices, hm, sub, sessVars, feedCore, ba, pp>>

\* BackgroundScheduler.start_portfolio_scheduler; it returns at once when
\* running is set.
start_portfolio_scheduler ==
    /\ ~sched.running
    /\ Len(sched.tasks) < MaxTasks
    /\ sched' = [sched EXCEPT !.running = TRUE,
                              !.portfolio_task = Len(sched.tasks) + 1,
                              !.tasks = Append(@, LoopTask("portfolio"))]
    /\ UnchangedButSched

\* BackgroundScheduler.stop_portfolio_scheduler
stop_portfolio_scheduler ==
    /\ sched' = [sched EXCEPT !.running = FALSE,
                              !.tasks = Cancel(@, sched.portfolio_task)]
    /\ UnchangedButSched

\* BackgroundScheduler.start_market_data_scheduler
start_market_data_scheduler ==
    /\ Len(sched.tasks) < MaxTasks
    /\ sched' = [sched EXCEPT !.market_data_task = Len(sched.tasks) + 1,
                              !.tasks = Append(@, LoopTask("market_data"))]
    /\ UnchangedButSched

\* BackgroundScheduler.stop_market_data_scheduler
stop_market_data_scheduler ==
    /\ sched' = [sched EXCEPT !.tasks = Cancel(@, sched.market_data_task)]
    /\ UnchangedButSched

\* _portfolio_update_loop and _market_data_loop at 'while self.running': one
\* more iteration, or the end of the loop.
loop_step(t) ==
    /\ sched.tasks[t].state = "running"
    /\ IF sched.running
       THEN /\ sched.tasks[t].iterations < MaxIterations
            /\ sched' = [sched EXCEPT !.tasks[t].iterations = @ + 1]
       ELSE sched' = [sched EXCEPT !.tasks[t].state = "finished"]
    /\ UnchangedButSched

\* ------------------------------------------------------- feed connections

\* The errors in whose text on_error finds "timed" or "Connection".
Reconnects(error) ==
    error \in {"timed out", "Connection to remote host was lost."}

\* The packet _send_login_packet packs.
LoginFrame(account) == [msg_type |-> "Q", clientcode |-> account]

\* The packet register_token_for_updates packs for a token of exchange NSE.
RegisterFrame(scrip) ==
    [msg_type |-> "D", exchange |-> "N", exchangetype |-> "C",
     script |-> scrip, add_to_list |-> 1]

\* A WebSocketApp whose thread has been started.  state: "connecting", then
\* "connected" (the transport is up, on_open has not run yet), "open"
\* (on_open ran), "active" (a message arrived), "errored" (on_error ran),
\* "closed" (on_close ran, the thread is over).
NewSocket(account) ==
    [account |-> account, state |-> "connecting", close_called |-> FALSE,
     sent |-> <<>>]

\* ws.send succeeds: the transport is connected and close() was not called.
CanSend(socket) ==
    socket.state \in {"connected", "open", "active"} /\ ~socket.close_called

\* MotilalService.setup_websocket_connection on the connections
\* ss = [ws_connections, sockets].
SetupWebsocketConnection(ss, account) ==
    [sockets |-> Append(ss.sockets, NewSocket(account)),
     ws_connections |-> DictSet(ss.ws_connections, account, Len(ss.sockets) + 1)]

Sessions == [ws_connections |-> ws_connections, sockets |-> sockets]

SetSessions(ss) ==
    /\ ws_connections' = ss.ws_connections
    /\ sockets' = ss.sockets

\* scheduler.setup_websocket_connections calling setup_websocket_connection.
setup_websocket_connection(account) ==
    /\ ~terminated
    /\ Len(sockets) < MaxSockets
    /\ SetSessions(SetupWebsocketConnection(Sessions, account))
    /\ UNCHANGED <<active_connections, client_subscriptions, token_subscribers,
                   token_cache, last_prices, hm, sub, terminated, feedVars>>

\* The thread of socket w has connected the transport; its next step is the
\* on_open callback.
ws_connected(w) ==
    /\ sockets[w].state = "connecting"
    /\ ~sockets[w].close_called
    /\ sockets' = [sockets EXCEPT ![w].state = "connected"]
    /\ UNCHANGED <<active_connections, client_subscriptions, token_subscribers,
                   token_cache, last_prices, hm, sub, ws_connections, terminated,
                   feedVars>>

\* on_open of socket w: the login packet is sent.
on_open(w) ==
    /\ sockets[w].state = "connected"
    /\ Len(sockets[w].sent) < MaxSent
    /\ ~sockets[w].close_called
    /\ sockets' = [sockets EXCEPT ![w].state = "open",
                                  ![w].sent = Append(@, LoginFrame(sockets[w].account))]
    /\ UNCHANGED <<active_connections, client_subscriptions, token_subscribers,
                   token_cache, last_prices, hm, sub, ws_connections, terminated,
                   feedVars>>

\* A message arrives on socket w.
ws_receive(w) ==
    /\ sockets[w].state \in {"open", "active"}
    /\ ~sockets[w].close_called
    /\ sockets' = [sockets EXCEPT ![w].state = "active"]
    /\ UNCHANGED <<active_connections, client_subscriptions, token_subscribers,
                   token_cache, last_prices, hm, sub, ws_connections, terminated,
                   feedVars>>

\* on_error of socket w: the transport failed to connect, failed while open,
\* or was closed under the thread by close().
on_error(w, error) ==
    /\ sockets[w].state \in {"connecting", "connected", "open", "active"}
    /\ LET ss == [Sessions EXCEPT !.sockets[w].state = "errored"]
       IN IF Reconnects(error)
          THEN /\ Len(sockets) < MaxSockets
               /\ SetSessions(SetupWebsocketConnection(ss, sockets[w].account))
          ELSE SetSessions(ss)
    /\ UNCHANGED <<active_connections, client_subscriptions, token_subscribers,
                   token_cache, last_prices, hm, sub, terminated, feedVars>>

\* on_close of socket w, after which its thread ends: the peer closed the
\* connection, an error was reported, or close() was called.
on_close(w) ==
    /\ \/ sockets[w].state \in {"connected", "open", "active", "errored"}
       \/ sockets[w].state = "connecting" /\ sockets[w].close_called
    /\ sockets' = [sockets EXCEPT ![w].state = "closed"]
    /\ UNCHANGED <<active_connections, client_subscriptions, token_subscribers,
                   token_cache, last_prices, hm, sub, ws_connections, terminated,
                   feedVars>>

\* The scrip codes the service records as registered for an account:
\* register_token_for_updates packs and sends its frame and stores nothing,
\* and the service has no other record of registrations.
RegisteredOnWire(ss, account) == {}

\* MotilalService.register_token_for_updates; a send that raises is logged.
register_token_for_updates(account, scrip) ==
    /\ IF account \in DOMAIN ws_connections /\ CanSend(sockets[ws_connections[account]])
       THEN /\ Len(sockets[ws_connections[account]].sent) < MaxSent
            /\ sockets' = [sockets EXCEPT ![ws_connections[account]].sent =
                                              Append(@, RegisterFrame(scrip))]
       ELSE UNCHANGED sockets
    /\ UNCHANGED <<active_connections, client_subscriptions, token_subscribers,
                   token_cache, last_prices, hm, sub, ws_connections, terminated,
                   feedVars>>

\* close_websocket_connections on the connections ss: close() is called on
\* every WebSocketApp held in ws_connections and the dict is cleared.
CloseWebsocketConnections(ss) ==
    [sockets |-> [w \in DOMAIN ss.sockets |->
                     IF \E a \in DOMAIN ss.ws_connections : ss.ws_connections[a] = w
                     THEN [ss.sockets[w] EXCEPT !.close_called = TRUE]
                     ELSE ss.sockets[w]],
     ws_connections |-> EmptyDict]

\* MotilalService.close_websocket_connections
close_websocket_connections ==
    /\ SetSessions(CloseWebsocketConnections(Sessions))
    /\ terminated' = TRUE
    /\ UNCHANGED <<active_connections, client_subscriptions, token_subscribers,
                   token_cache, last_prices, hm, sub, feedVars>>

\* The shutdown tasks of lifespan: disconnect_all, then
\* close_websocket_connections.
lifespan_shutdown ==
    /\ ~terminated
    /\ SetRegistry(DisconnectAll(Registry, active_connections))
    /\ SetSessions(CloseWebsocketConnections(Sessions))
    /\ terminated' = TRUE
    /\ UNCHANGED <<token_cache, last_prices, hm, sub, feedVars>>

\* ------------------------------------------------------ frame reassembly

\* The n bytes a connection delivers next.  A byte is written <<account, k>>:
\* the k-th byte of that account's stream.
Message(account, n) == [i \in 1..n |-> <<account, received[account] + i>>]

\* The packets list built by _parse_websocket_packets: the slices of message
\* that are response_packet_length long.
RECURSIVE PacketsOf(_)
PacketsOf(message) ==
    IF Len(message) < ResponsePacketLength THEN <<>>
    ELSE <<SubSeq(message, 1, ResponsePacketLength)>>
             \o PacketsOf(SubSeq(message, ResponsePacketLength + 1, Len(message)))

\* The partial-packet loop of _process_websocket_message: every byte is put
\* on the queue, and when the queue holds exactly 30 bytes they are taken off
\* and parsed as one message.
RECURSIVE PutBytes(_, _, _)
PutBytes(queue, out, message) ==
    IF message = <<>> THEN [message_queue |-> queue, frames |-> out]
    ELSE LET q == Append(queue, Head(message))
         IN IF Len(q) = PartialPacketLength
            THEN PutBytes(<<>>, out \o PacketsOf(q), Tail(message))
            ELSE PutBytes(q, out, Tail(message))

\* Decoding the header of a packet raises: packet[:1].decode() or
\* packet[9:10].decode() meets a byte that is not UTF-8.
Raises(packet) == packet[1] \in BadBytes \/ packet[10] \in BadBytes

\* The packets the second loop of one _parse_websocket_packets call decodes
\* and passes on: the try block encloses the loop, so the first packet that
\* raises ends the call.
RECURSIVE ParsedOf(_)
ParsedOf(packets) ==
    IF packets = <<>> \/ Raises(Head(packets)) THEN <<>>
    ELSE <<Head(packets)>> \o ParsedOf(Tail(packets))

\* The packets passed on while a message is processed, given the packets
\* it hands to the decoder: one _parse_websocket_packets call for a message
\* of whole packets, one call per packet drained from the queue otherwise.
ParsedOfMessage(message, packets) ==
    IF Len(message) % ResponsePacketLength = 0
    THEN ParsedOf(packets)
    ELSE SelectSeq(packets, LAMBDA f : ~Raises(f))

\* _process_websocket_message without its partial-packet branch: every
\* message is handed to _parse_websocket_packets as it arrives.
ProcessWebsocketMessageDirect(queue, out, message) ==
    [message_queue |-> queue, frames |-> out \o PacketsOf(message)]

\* MotilalService._process_websocket_message
ProcessWebsocketMessage(queue, out, message) ==
    IF Len(message) % ResponsePacketLength = 0
    THEN [message_queue |-> queue, frames |-> out \o PacketsOf(message)]
    ELSE PutBytes(queue, out, message)

\* on_message of an account's connection delivering n bytes.
on_message(account, n) ==
    /\ received[account] + n <= MaxFeedBytes
    /\ LET r == ProcessWebsocketMessage(message_queue, frames, Message(account, n))
           handed == SubSeq(r.frames, Len(frames) + 1, Len(r.frames))
       IN /\ message_queue' = r.message_queue
          /\ frames' = r.frames
          /\ decoded' = decoded \o ParsedOfMessage(Message(account, n), handed)
    /\ received' = [received EXCEPT ![account] = @ + n]
    /\ UNCHANGED <<parsed, auxVars>>
    /\ UNCHANGED <<active_connections, client_subscriptions, token_subscribers,
                   token_cache, last_prices, hm, sub, sessVars>>

\* --------------------------------------------------------- packet decoder

\* The exchange name with the first range of 'N' ending below 34999.
ExchangeNameBelow(exchange, scrip) ==
    CASE exchange = "N" ->
             IF scrip < 34999 \/ (888801 <= scrip /\ scrip <= 888820)
             THEN "NSE" ELSE "NSEFO"
      [] exchange = "B" -> "BSE"
      [] exchange = "M" -> "MCX"
      [] exchange = "D" -> "NCDEX"
      [] exchange = "C" -> "NSECD"
      [] exchange = "G" -> "BSEFO"
      [] OTHER -> exchange

\* exchange_names.get(exchange, exchange) of _parse_ltp_packet.
ExchangeName(exchange, scrip) ==
    CASE exchange = "N" ->
             IF scrip <= 34999 \/ (888801 <= scrip /\ scrip <= 888820)
             THEN "NSE" ELSE "NSEFO"
      [] exchange = "B" -> "BSE"
      [] exchange = "M" -> "MCX"
      [] exchange = "D" -> "NCDEX"
      [] exchange = "C" -> "NSECD"
      [] exchange = "G" -> "BSEFO"
      [] OTHER -> exchange

\* The level of a depth packet without the level map: always the default.
LevelMapDefault(msg_type) == 1

\* level_map.get(msg_type, 1) of _parse_market_depth_packet.
LevelMap(msg_type) ==
    CASE msg_type = "B" -> 1
      [] msg_type = "C" -> 2
      [] msg_type = "D" -> 3
      [] msg_type = "E" -> 4
      [] msg_type = "F" -> 5
      [] OTHER -> 1

\* The header part of the dicts the three packet parsers return.
ParseLtpPacket(exchange, scrip) ==
    [Exchange |-> ExchangeName(exchange, scrip), ScripCode |-> scrip]

ParseMarketDepthPacket(exchange, scrip, msg_type) ==
    [Exchange |-> exchange, ScripCode |-> scrip, Level |-> LevelMap(msg_type)]

ParseOhlcPacket(exchange, scrip) ==
    [Exchange |-> exchange, ScripCode |-> scrip]

\* A call of _broadcast_market_data(data_type, data).
BroadcastCall(data_type, data) ==
    [call |-> "_broadcast_market_data", data_type |-> data_type, data |-> data]

\* A call of _send_heartbeat_response(client).
HeartbeatCall == [call |-> "_send_heartbeat_response"]

\* Decoding the header of a packet raises UnicodeDecodeError.
HeaderRaises(h) == h.exchange = Undecodable \/ h.msg_type = Undecodable

\* The dispatch with a final else that forwards the packet as "Unknown".
DispatchElse(h) ==
    IF h.msg_type = "A"
    THEN <<BroadcastCall("LTP", ParseLtpPacket(h.exchange, h.scrip))>>
    ELSE IF h.msg_type \in {"B", "C", "D", "E", "F"}
    THEN <<BroadcastCall("MarketDepth",
                         ParseMarketDepthPacket(h.exchange, h.scrip, h.msg_type))>>
    ELSE IF h.msg_type = "G"
    THEN <<BroadcastCall("DayOHLC", ParseOhlcPacket(h.exchange, h.scrip))>>
    ELSE IF h.msg_type = "1"
    THEN <<HeartbeatCall>>
    ELSE <<BroadcastCall("Unknown", ParseOhlcPacket(h.exchange, h.scrip))>>

\* The if/elif chain of _parse_websocket_packets for one packet: the calls
\* it makes.
Dispatch(h) ==
    IF h.msg_type = "A"
    THEN <<BroadcastCall("LTP", ParseLtpPacket(h.exchange, h.scrip))>>
    ELSE IF h.msg_type \in {"B", "C", "D", "E", "F"}
    THEN <<BroadcastCall("MarketDepth",
                         ParseMarketDepthPacket(h.exchange, h.scrip, h.msg_type))>>
    ELSE IF h.msg_type = "G"
    THEN <<BroadcastCall("DayOHLC", ParseOhlcPacket(h.exchange, h.scrip))>>
    ELSE IF h.msg_type = "1"
    THEN <<HeartbeatCall>>
    ELSE <<>>

\* The second loop of _parse_websocket_packets over the packets of a
\* message: the calls it makes, up to the first packet that raises.
RECURSIVE ParseWebsocketPackets(_)
ParseWebsocketPackets(headers) ==
    IF headers = <<>> \/ HeaderRaises(Head(headers)) THEN <<>>
    ELSE Dispatch(Head(headers)) \o ParseWebsocketPackets(Tail(headers))

\* MotilalService._parse_websocket_packets called with a message.
parse_websocket_packets(message) ==
    /\ parsed' = [message |-> message, calls |-> ParseWebsocketPackets(message),
                  socket |-> 0]
    /\ UNCHANGED <<active_connections, client_subscriptions, token_subscribers,
                   token_cache, last_prices, hm, sub, sessVars,
                   message_queue, received, frames, decoded, auxVars>>

\* The packet _send_heartbeat_response packs.
HeartbeatFrame == [msg_type |-> "1"]

\* The _send_heartbeat_response calls among 'calls', for the client of
\* 'account', on the connections ss: each looks up ws_connections and sends;
\* a missing connection is skipped and a send that raises is logged.
RECURSIVE SendHeartbeats(_, _, _)
SendHeartbeats(ss, account, calls) ==
    IF calls = <<>> THEN ss
    ELSE IF Head(calls) = HeartbeatCall
            /\ account \in DOMAIN ss.ws_connections
            /\ CanSend(ss.sockets[ss.ws_connections[account]])
    THEN SendHeartbeats(
             [ss EXCEPT !.sockets[ss.ws_connections[account]].sent =
                            Append(@, HeartbeatFrame)],
             account, Tail(calls))
    ELSE SendHeartbeats(ss, account, Tail(calls))

\* on_message of socket w receiving a message of whole packets.
on_packets(w, message) ==
    /\ sockets[w].state \in {"open", "active"}
    /\ ~sockets[w].close_called
    /\ LET calls == ParseWebsocketPackets(message)
           ss == SendHeartbeats([Sessions EXCEPT !.sockets[w].state = "active"],
                                sockets[w].account, calls)
       IN /\ \A v \in DOMAIN ss.sockets : Len(ss.sockets[v].sent) <= MaxSent
          /\ SetSessions(ss)
          /\ parsed' = [message |-> message, calls |-> calls, socket |-> w]
    /\ UNCHANGED <<active_connections, client_subscriptions, token_subscribers,
                   token_cache, last_prices, hm, sub, terminated,
                   message_queue, received, frames, decoded, auxVars>>

\* ------------------------------------------------------ connection threads

\* _process_websocket_message statement by statement: every WebSocketApp runs
\* on a thread of its own, and the calls of the threads interleave between
\* put(), qsize() and each get() of the shared Queue.  pc: "idle" (no call),
\* "put" (about to put the next byte of 'todo'), "check" (about to compare
\* qsize() with 30), "get" (taking bytes off into packet_data).
ThreadIdle == [pc |-> "idle", todo |-> <<>>, packet_data |-> <<>>]

\* Lengths of the messages each connection delivers while the threads
\* interleave.
ThreadChunkSizes == [a \in FeedAccounts |-> IF a = "A1" THEN {29} ELSE {2, 30}]

AfterByte(todo) == IF todo = <<>> THEN "idle" ELSE "put"

\* The call begins: a message of whole packets is parsed at once.
pm_start(account, n) ==
    /\ threads[account].pc = "idle"
    /\ received["A1"] + received["A2"] + n <= MaxThreadBytes
    /\ received' = [received EXCEPT ![account] = @ + n]
    /\ IF n % ResponsePacketLength = 0
       THEN /\ frames' = frames \o PacketsOf(Message(account, n))
            /\ decoded' = decoded \o ParsedOf(PacketsOf(Message(account, n)))
            /\ UNCHANGED threads
       ELSE /\ threads' = [threads EXCEPT ![account] =
                               [pc |-> "put", todo |-> Message(account, n),
                                packet_data |-> <<>>]]
            /\ UNCHANGED <<frames, decoded>>
    /\ UNCHANGED <<active_connections, client_subscriptions, token_subscribers,
                   token_cache, last_prices, hm, sub, sessVars,
                   message_queue, parsed, packed, ba, pp, sched>>

\* self.message_queue.put(byte)
pm_put(account) ==
    /\ threads[account].pc = "put"
    /\ message_queue' = Append(message_queue, Head(threads[account].todo))
    /\ threads' = [threads EXCEPT ![account].pc = "check",
                                  ![account].todo = Tail(@)]
    /\ UNCHANGED <<active_connections, client_subscriptions, token_subscribers,
                   token_cache, last_prices, hm, sub, sessVars,
                   received, frames, decoded, parsed, packed, ba, pp, sched>>

\* if self.message_queue.qsize() == 30
pm_check(account) ==
    /\ threads[account].pc = "check"
    /\ threads' = [threads EXCEPT ![account].pc =
                       IF Len(message_queue) = PartialPacketLength THEN "get"
                       ELSE AfterByte(threads[account].todo)]
    /\ UNCHANGED <<active_connections, client_subscriptions, token_subscribers,
                   token_cache, last_prices, hm, sub, sessVars,
                   message_queue, received, frames, decoded, parsed, packed,
                   ba, pp, sched>>

\* for _ in range(30): packet_data.append(self.message_queue.get()).  get()
\* blocks on an empty queue; the gets of the loop are taken without a switch
\* of thread for as long as the queue has bytes, and the 30th byte completes
\* the packet, which is parsed.
pm_get(account) ==
    /\ threads[account].pc = "get"
    /\ message_queue # <<>>
    /\ LET missing == PartialPacketLength - Len(threads[account].packet_data)
           k == IF Len(message_queue) < missing THEN Len(message_queue) ELSE missing
           packet_data == threads[account].packet_data \o SubSeq(message_queue, 1, k)
       IN /\ message_queue' = SubSeq(message_queue, k + 1, Len(message_queue))
          /\ IF Len(packet_data) = PartialPacketLength
             THEN /\ frames' = frames \o PacketsOf(packet_data)
                  /\ decoded' = decoded \o ParsedOf(PacketsOf(packet_data))
                  /\ threads' = [threads EXCEPT
                                     ![account].pc = AfterByte(threads[account].todo),
                                     ![account].packet_data = <<>>]
             ELSE /\ threads' = [threads EXCEPT ![account].packet_data = packet_data]
                  /\ UNCHANGED <<frames, decoded>>
    /\ UNCHANGED <<active_connections, client_subscriptions, token_subscribers,
                   token_cache, last_prices, hm, sub, sessVars,
                   received, parsed, packed, ba, pp, sched>>

\* --------------------------------------------------------- request packets

\* Strings are sequences of characters.  The account ids packed into a login
\* packet: motilal_client_id is a string of 1 to 100 characters.
ClientCodeLengths == {1, 2, 8, 15, 16, 31}

ClientCodes ==
    {[i \in 1..n |-> IF i % 2 = 1 THEN a ELSE b] :
        n \in ClientCodeLengths, a \in {"A", "1"}, b \in {"A", "1"}}

\* Token.exchange of the tokens registered.
TokenExchanges ==
    {<<"N", "S", "E">>, <<"B", "S", "E">>, <<"M", "C", "X">>,
     <<"N", "S", "E", "F", "O">>, <<"N", "S", "E", "C", "D">>,
     <<"N", "C", "D", "E", "X">>, <<"B", "S", "E", "F", "O">>}

\* Token.token_id of the tokens registered: an Integer column.
TokenIds ==
    {0, 1, 255, 256, 2885, 65536, 16777216, 2147483647,
     -1, -256, -2147483647, -2147483647 - 1}

\* ord(ch) of the characters the request packets hold.
Ord(ch) ==
    CASE ch = " " -> 32 [] ch = "." -> 46 [] ch = "0" -> 48 [] ch = "1" -> 49
      [] ch = "2" -> 50 [] ch = "A" -> 65 [] ch = "B" -> 66 [] ch = "C" -> 67
      [] ch = "D" -> 68 [] ch = "E" -> 69 [] ch = "G" -> 71 [] ch = "M" -> 77
      [] ch = "N" -> 78 [] ch = "Q" -> 81 [] ch = "R" -> 82 [] ch = "V" -> 86

\* str.encode()
Encode(str) == [i \in DOMAIN str |-> Ord(str[i])]

\* str.ljust(width, " ")
Ljust(str, width) ==
    IF Len(str) >= width THEN str
    ELSE str \o [i \in 1..(width - Len(str)) |-> " "]

\* struct.pack, standard sizes, little-endian: the formats 'c' and 'B' (one
\* byte), 'H' (two bytes), 'i' (four bytes, two's complement) and 'ns' (n
\* bytes, cut or filled with null bytes).
PackB(v) == <<v>>

PackHBigEndian(v) == <<v \div 256, v % 256>>

PackH(v) == <<v % 256, v \div 256>>

PackI(v) ==
    LET u == IF v >= 0 THEN v ELSE (v + 2147483647) + 1
    IN <<u % 256, (u \div 256) % 256, (u \div 65536) % 256,
         (u \div 16777216) + (IF v < 0 THEN 128 ELSE 0)>>

PackS(bytes, n) == [i \in 1..n |-> IF i <= Len(bytes) THEN bytes[i] ELSE 0]

WebsocketVersion == <<"V", "E", "R", " ", "2", ".", "0">>

\* The login packet of _send_login_packet.
LoginPacket(clientcode) ==
    PackB(Ord("Q")) \o PackH(111)
        \o PackB(Len(clientcode)) \o PackS(Encode(Ljust(clientcode, 15)), 15)
        \o PackB(Len(clientcode)) \o PackS(Encode(Ljust(clientcode, 30)), 30)
        \o PackB(1) \o PackB(1) \o PackB(1)
        \o PackB(Len(WebsocketVersion)) \o PackS(Encode(Ljust(WebsocketVersion, 10)), 10)
        \o PackB(0) \o PackB(0) \o PackB(0) \o PackB(0) \o PackB(1)
        \o PackS([i \in 1..45 |-> Ord(" ")], 45)

\* exchange_map.get(token.exchange, token.exchange[0])
ExchangeCode(exchange) ==
    CASE exchange = <<"N", "S", "E", "C", "D">> -> "C"
      [] exchange = <<"N", "C", "D", "E", "X">> -> "D"
      [] exchange = <<"B", "S", "E", "F", "O">> -> "G"
      [] OTHER -> exchange[1]

\* The register packet of register_token_for_updates.
RegisterPacket(exchange, token_id) ==
    PackB(Ord("D")) \o PackH(7) \o PackB(Ord(ExchangeCode(exchange)))
        \o PackB(Ord("C")) \o PackI(token_id) \o PackB(1)

\* The packet of _send_heartbeat_response.
HeartbeatPacket == PackB(Ord("1")) \o PackH(0)

UnchangedButPacked ==
    UNCHANGED <<active_connections, client_subscriptions, token_subscribers,
                token_cache, last_prices, hm, sub, sessVars,
                message_queue, received, frames, decoded, parsed, threads,
                ba, pp, sched>>

\* _send_login_packet packs the login packet of an account.
pack_login(clientcode) ==
    /\ packed' = [of |-> "_send_login_packet", args |-> <<clientcode>>,
                  bytes |-> LoginPacket(clientcode)]
    /\ UnchangedButPacked

\* register_token_for_updates packs the register packet of a token.
pack_register(exchange, token_id) ==
    /\ packed' = [of |-> "register_token_for_updates",
                  args |-> <<exchange, token_id>>,
                  bytes |-> RegisterPacket(exchange, token_id)]
    /\ UnchangedButPacked

\* _send_heartbeat_response packs its packet.
pack_heartbeat ==
    /\ packed' = [of |-> "_send_heartbeat_response", args |-> <<>>,
                  bytes |-> HeartbeatPacket]
    /\ UnchangedButPacked

\* ----------------------------------------------------------- specification

Init ==
    /\ active_connections = {}
    /\ client_subscriptions = EmptyDict
    /\ token_subscribers = EmptyDict
    /\ token_cache = EmptyDict
    /\ last_prices = EmptyDict
    /\ hm = HmIdle
    /\ sub = SubIdle
    /\ ws_connections = EmptyDict
    /\ sockets = <<>>
    /\ terminated = FALSE
    /\ message_queue = <<>>
    /\ received = [a \in FeedAccounts |-> 0]
    /\ frames = <<>>
    /\ decoded = <<>>
    /\ parsed = [message |-> <<>>, calls |-> <<>>, socket |-> 0]
    /\ packed = [of |-> None, args |-> <<>>, bytes |-> <<>>]
    /\ threads = [a \in FeedAccounts |-> ThreadIdle]
    /\ ba = BaIdle
    /\ pp = PpIdle
    /\ sched = [running |-> FALSE, portfolio_task |-> 0, market_data_task |-> 0,
                tasks |-> <<>>]

Next ==
    \/ \E c \in Clients : connect(c)
    \/ \E c \in Clients : disconnect(c)
    \/ \E c \in Clients, t \in Symbols : subscribe_to_token(c, t)
    \/ \E c \in Clients, t \in Symbols : unsubscribe_from_token(c, t)
    \/ update_token_cache
    \/ \E b \in Batches, ord \in ClientOrders : handle_market_data(b, ord)
    \/ \E ord \in ClientOrders : hm_db_done(ord)
    \/ \E ok \in BOOLEAN, ord \in ClientOrders : hm_send_done(ok, ord)
    \/ \E c \in Clients, t \in AskedSymbols, ord \in ClientOrders :
           subscribe_client_to_token(c, t, ord)
    \/ \E ok \in BOOLEAN : sub_send_done(ok)

Spec == Init /\ [][Next]_vars

\* The feed byte stream of one connection alone.
NextFeed == \E n \in ChunkSizes : on_message("A1", n)

SpecFeed == Init /\ [][NextFeed]_vars

\* The feed byte streams of all the connections, each on_message run by the
\* receive thread of its connection.
NextFeeds == \E a \in FeedAccounts, n \in SharedChunkSizes : on_message(a, n)

SpecFeeds == Init /\ [][NextFeeds]_vars

\* The application from startup to shutdown: client and registry calls are
\* served until the shutdown tasks run; the feed threads run on.
NextShutdown ==
    \/ \E c \in Clients : ~terminated /\ connect(c)
    \/ \E c \in Clients : ~terminated /\ disconnect(c)
    \/ \E c \in Clients, t \in Symbols : ~terminated /\ subscribe_to_token(c, t)
    \/ \E c \in Clients, t \in Symbols : ~terminated /\ unsubscribe_from_token(c, t)
    \/ \E a \in FeedAccounts : setup_websocket_connection(a)
    \/ \E w \in DOMAIN sockets : ws_connected(w)
    \/ \E w \in DOMAIN sockets : on_open(w)
    \/ \E w \in DOMAIN sockets, e \in Errors : on_error(w, e)
    \/ \E w \in DOMAIN sockets : on_close(w)
    \/ lifespan_shutdown

SpecShutdown == Init /\ [][NextShutdown]_vars

\* The client whose socket never completes a send_text.
SlowClient == "u1"

\* handle_market_data resumed after a send_text to a client other than
\* SlowClient: the send to SlowClient never returns and never raises.
hm_send_done_unblocked(ok, ord) ==
    /\ hm.to # SlowClient
    /\ hm_send_done(ok, ord)

\* The distribution engine with one client that never completes a send.  The
\* event loop resumes every coroutine whose await has completed.
NextSlow ==
    \/ \E c \in Clients : connect(c)
    \/ \E c \in Clients, t \in Symbols : subscribe_to_token(c, t)
    \/ update_token_cache
    \/ \E b \in Batches, ord \in ClientOrders : handle_market_data(b, ord)
    \/ \E ord \in ClientOrders : hm_db_done(ord)
    \/ \E ok \in BOOLEAN, ord \in ClientOrders : hm_send_done_unblocked(ok, ord)

SpecSlow ==
    /\ Init
    /\ [][NextSlow]_vars
    /\ WF_vars(\E ord \in ClientOrders : hm_db_done(ord))
    /\ WF_vars(\E ok \in BOOLEAN, ord \in ClientOrders : hm_send_done_unblocked(ok, ord))

\* The distribution engine fed batches that hold a rateless packet.
NextBatch ==
    \/ \E c \in Clients : connect(c)
    \/ \E c \in Clients, t \in Symbols : subscribe_to_token(c, t)
    \/ update_token_cache
    \/ \E b \in FaultyBatches, o \in ClientOrders : handle_market_data(b, o)
    \/ \E o \in ClientOrders : hm_db_done(o)
    \/ \E ok \in BOOLEAN, o \in ClientOrders : hm_send_done(ok, o)

SpecBatch == Init /\ [][NextBatch]_vars

\* broadcast_to_all while clients connect, disconnect and subscribe.
NextChurn ==
    \/ \E c \in Clients : connect(c)
    \/ \E c \in Clients : disconnect(c)
    \/ \E c \in Clients, t \in Symbols : subscribe_to_token(c, t)
    \/ \E o \in ClientOrders : broadcast_to_all(o)
    \/ \E ok \in BOOLEAN, o \in ClientOrders : ba_send_done(ok, o)

SpecChurn == Init /\ [][NextChurn]_vars

\* The two writers of the price cache beside the registry.
NextPoll ==
    \/ \E c \in Clients : connect(c)
    \/ \E c \in Clients, t \in Symbols : subscribe_to_token(c, t)
    \/ update_token_cache
    \/ \E b \in PollBatches, o \in ClientOrders : handle_market_data(b, o)
    \/ \E o \in ClientOrders : hm_db_done(o)
    \/ \E ok \in BOOLEAN, o \in ClientOrders : hm_send_done(ok, o)
    \/ \E t \in Symbols, q \in Quotes, o \in ClientOrders :
           periodic_price_updates(t, q, o)
    \/ \E ok \in BOOLEAN : pp_send_done(ok)

SpecPoll == Init /\ [][NextPoll]_vars

\* The scheduler's start and stop calls and its loop tasks.
NextScheduler ==
    \/ start_portfolio_scheduler
    \/ stop_portfolio_scheduler
    \/ start_market_data_scheduler
    \/ stop_market_data_scheduler
    \/ \E t \in DOMAIN sched.tasks : loop_step(t)

SpecScheduler == Init /\ [][NextScheduler]_vars

\* The calls of _process_websocket_message on the threads of two connections.
NextThreads ==
    \/ \E a \in FeedAccounts : \E n \in ThreadChunkSizes[a] : pm_start(a, n)
    \/ \E a \in FeedAccounts : pm_put(a)
    \/ \E a \in FeedAccounts : pm_check(a)
    \/ \E a \in FeedAccounts : pm_get(a)

SpecThreads == Init /\ [][NextThreads]_vars

\* The distribution engine fed batches that hold an unresolvable packet.
NextSkip ==
    \/ \E c \in Clients : connect(c)
    \/ \E c \in Clients, t \in Symbols : subscribe_to_token(c, t)
    \/ update_token_cache
    \/ \E b \in SkipBatches, o \in ClientOrders : handle_market_data(b, o)
    \/ \E o \in ClientOrders : hm_db_done(o)
    \/ \E ok \in BOOLEAN, o \in ClientOrders : hm_send_done(ok, o)

SpecSkip == Init /\ [][NextSkip]_vars

\* The three request packets packed for every input.
NextEncode ==
    \/ \E c \in ClientCodes : pack_login(c)
    \/ \E x \in TokenExchanges, t \in TokenIds : pack_register(x, t)
    \/ pack_heartbeat

SpecEncode == Init /\ [][NextEncode]_vars

\* The packet decoder applied to messages of every header.
NextDecode == \E m \in FeedMessages : parse_websocket_packets(m)

SpecDecode == Init /\ [][NextDecode]_vars

\* Feed connections receiving messages of whole packets.
NextHeartbeat ==
    \/ \E a \in FeedAccounts : setup_websocket_connection(a)
    \/ \E w \in DOMAIN sockets : ws_connected(w)
    \/ \E w \in DOMAIN sockets : on_open(w)
    \/ \E w \in DOMAIN sockets, g \in PairHeaders : on_packets(w, <<g>>)
    \/ \E w \in DOMAIN sockets, g \in PairHeaders, h \in PairHeaders :
           on_packets(w, <<g, h>>)

SpecHeartbeat == Init /\ [][NextHeartbeat]_vars

\* The feed connections.
NextSession ==
    \/ \E a \in FeedAccounts : setup_websocket_connection(a)
    \/ \E w \in DOMAIN sockets : ws_connected(w)
    \/ \E w \in DOMAIN sockets : on_open(w)
    \/ \E w \in DOMAIN sockets : ws_receive(w)
    \/ \E w \in DOMAIN sockets, e \in Errors : on_error(w, e)
    \/ \E w \in DOMAIN sockets : on_close(w)
    \/ \E a \in FeedAccounts, s \in DOMAIN DbTokens : register_token_for_updates(a, s)
    \/ close_websocket_connections

SpecSession == Init /\ [][NextSession]_vars

\* The subscribe calls of the distribution engine beside feed connections
\* that stay up.
NextWire ==
    \/ \E a \in FeedAccounts : setup_websocket_connection(a)
    \/ \E w \in DOMAIN sockets : ws_connected(w)
    \/ \E w \in DOMAIN sockets : on_open(w)
    \/ \E a \in FeedAccounts, s \in DOMAIN DbTokens : register_token_for_updates(a, s)
    \/ update_token_cache
    \/ \E c \in Clients, t \in AskedSymbols, ord \in ClientOrders :
           subscribe_client_to_token(c, t, ord)

SpecWire == Init /\ [][NextWire]_vars

\* ------------------------------------------------------------------ claims

\* client_id and token_symbol are linked in either map.
Linked(client_id, token_symbol) ==
    \/ client_id \in DictGet(token_subscribers, token_symbol, {})
    \/ token_symbol \in DictGet(client_subscriptions, client_id, {})

\* The two maps are mutual inverses and neither holds an empty set.
RegistryInvariant ==
    /\ \A c \in Clients, t \in AskedSymbols :
           c \in DictGet(token_subscribers, t, {})
               <=> t \in DictGet(client_subscriptions, c, {})
    /\ \A t \in DOMAIN token_subscribers : token_subscribers[t] # {}
    /\ \A c \in DOMAIN client_subscriptions : client_subscriptions[c] # {}

\* A step that is one subscribe, unsubscribe or removeSubscriber call.
RegistryOp ==
    \/ \E c \in Clients, t \in Symbols : subscribe_to_token(c, t)
    \/ \E c \in Clients, t \in Symbols : unsubscribe_from_token(c, t)
    \/ \E c \in Clients : disconnect(c)

\* C2: every subscribe, unsubscribe and removeSubscriber call made in a
\* state where token_subscribers and client_subscriptions are mutual
\* inverses without empty sets leaves them so.
C2_RegistryInvariantKept ==
    [][(RegistryInvariant /\ RegistryOp) => RegistryInvariant']_vars

\* C3: every message sent for an LTP packet goes to a client that is, at the
\* moment of the send, subscribed to the symbol resolved from the packet's
\* scrip code.
C3_SentOnlyToSubscribed ==
    [][(hm' # hm /\ hm'.pc = "send" /\ Head(hm'.packets).type = "LTP")
          => hm'.to \in DictGet(token_subscribers', hm'.symbol, {})]_vars

\* C7: every snapshot message sent by subscribe_client_to_token goes to the
\* client that call subscribes.
C7_SnapshotToNewSubscriberOnly ==
    sub.pc = "send" => sub.to = sub.client_id

\* C9: for every pair that is not linked, subscribe followed by unsubscribe
\* gives back both maps as they were.
C9_SubscribeUnsubscribeNetZero ==
    \A c \in Clients, t \in Symbols :
        ~Linked(c, t) =>
            LET r == UnsubscribeFromToken(SubscribeToToken(Registry, c, t), c, t)
            IN /\ r.client_subscriptions = client_subscriptions
               /\ r.token_subscribers = token_subscribers

\* C10: for every pair, subscribing twice gives the registry that subscribing
\* once gives, and unsubscribing twice the one that unsubscribing once gives.
C10_Idempotent ==
    \A c \in Clients, t \in AskedSymbols :
        /\ SubscribeToToken(SubscribeToToken(Registry, c, t), c, t)
               = SubscribeToToken(Registry, c, t)
        /\ UnsubscribeFromToken(UnsubscribeFromToken(Registry, c, t), c, t)
               = UnsubscribeFromToken(Registry, c, t)

\* A registry built by subscribe calls in which one pair is linked (both
\* calls act on it) while another client was never subscribed and has no
\* entry.
C10_Witness ==
    \E c \in Clients, t \in Symbols :
        /\ c \in DictGet(token_subscribers, t, {})
        /\ t \in DictGet(client_subscriptions, c, {})
        /\ UnsubscribeFromToken(Registry, c, t) # Registry
        /\ \E d \in Clients \ {c} :
               /\ d \notin DOMAIN client_subscriptions
               /\ SubscribeToToken(Registry, d, t) # Registry

\* All the frames of a sequence of frames, joined.
RECURSIVE Concat(_)
Concat(fs) == IF fs = <<>> THEN <<>> ELSE Head(fs) \o Concat(Tail(fs))

\* C1: when one connection alone has delivered bytes, in chunks of any
\* sizes, the frames handed to the decoder, joined in order, are the bytes
\* delivered cut to the largest multiple of 30.
C1_FramesAreInputTruncated ==
    \A a \in FeedAccounts :
        (\A b \in FeedAccounts \ {a} : received[b] = 0) =>
            Concat(frames) =
                [i \in 1..(ResponsePacketLength * (received[a] \div ResponsePacketLength))
                    |-> <<a, i>>]

\* The frames sent on a socket, as a set.
SentOn(socket) == {socket.sent[i] : i \in DOMAIN socket.sent}

\* Frames were sent on the socket: its connection was established.
Established(socket) == socket.sent # <<>>

\* C4: whenever an established connection reports an error or is closed,
\* while close() was not called on it and close_websocket_connections was
\* not called, a newer connection attempt for the same account has been made
\* by the end of the callback.
C4_ReconnectOnAnyFailure ==
    [][\A w \in DOMAIN sockets :
          (/\ Established(sockets[w])
           /\ sockets'[w].state # sockets[w].state
           /\ sockets'[w].state \in {"errored", "closed"}
           /\ ~sockets[w].close_called
           /\ ~terminated)
          => \E v \in DOMAIN sockets' :
                v > w /\ sockets'[v].account = sockets[w].account]_vars

\* C5: when the connection of an account has been lost and the connection
\* that replaces it is receiving messages, every register frame sent on the
\* lost connection has been sent on the new one.
C5_RegistrationsResent ==
    \A a \in DOMAIN ws_connections :
        \A v \in DOMAIN sockets :
            (/\ v < ws_connections[a]
             /\ sockets[v].account = a
             /\ sockets[v].state \in {"errored", "closed"}
             /\ sockets[ws_connections[a]].state = "active")
            => \A f \in SentOn(sockets[v]) :
                   f.msg_type = "D" => f \in SentOn(sockets[ws_connections[a]])

\* C6: once close_websocket_connections has been called, no step creates a
\* new WebSocketApp.
C6_NoConnectionAfterTerminate ==
    [][terminated => Len(sockets') = Len(sockets)]_vars

\* The scrip code of a symbol.
ScripOf(symbol) == CHOOSE s \in DOMAIN DbTokens : DbTokens[s] = symbol

\* Some account has a feed connection that can send.
SomeFeedOpen ==
    \E a \in DOMAIN ws_connections : CanSend(sockets[ws_connections[a]])

\* C8: while a feed connection is open, a subscribe_client_to_token call that
\* adds the first subscriber of a symbol sends a register frame (add flag 1)
\* for the symbol's scrip code on a feed connection, and a call for a symbol
\* that already has a subscriber sends nothing.
C8_FirstSubscriberRegistersOnWire ==
    [][\A t \in Symbols :
          /\ (/\ SomeFeedOpen
              /\ t \notin DOMAIN token_subscribers
              /\ t \in DOMAIN token_subscribers')
             => \E w \in DOMAIN sockets :
                    sockets'[w].sent = Append(sockets[w].sent, RegisterFrame(ScripOf(t)))
          /\ (/\ t \in DOMAIN token_subscribers
              /\ token_subscribers'[t] # token_subscribers[t])
             => sockets' = sockets]_vars

\* bool(value) for the values a registry method hands back.
Truthy(value) == value = "True"

\* C11: for every registry state and every pair, subscribe_to_token returns
\* a true value exactly when the token has no subscriber before the call.
C11_FirstSubscriberReported ==
    \A c \in Clients, t \in Symbols :
        Truthy(SubscribeToTokenReturn(Registry, c, t))
            <=> DictGet(token_subscribers, t, {}) = {}

\* C12: for every registry state and every subscribed pair,
\* unsubscribe_from_token returns a true value exactly when the token has no
\* subscriber after the call.
C12_LastSubscriberReported ==
    \A c \in Clients, t \in Symbols :
        c \in DictGet(token_subscribers, t, {}) =>
            (Truthy(UnsubscribeFromTokenReturn(Registry, c, t))
                <=> DictGet(UnsubscribeFromToken(Registry, c, t).token_subscribers,
                            t, {}) = {})

\* C13: for every registry state and every client id, connected or not,
\* after disconnect the client is in no symbol's subscriber set, has no
\* entry in client_subscriptions, and no symbol is left with an empty set.
C13_RemoveSubscriberRemovesAll ==
    \A c \in Clients :
        LET r == Disconnect(Registry, c)
        IN /\ c \notin DOMAIN r.client_subscriptions
           /\ \A t \in DOMAIN r.token_subscribers :
                  c \notin r.token_subscribers[t] /\ r.token_subscribers[t] # {}

\* A fan-out is suspended at a send_text.
FanOutInProgress == hm.pc = "send" \/ sub.pc = "send"

\* C14: every subscribe, unsubscribe and removeSubscriber call that runs
\* while a fan-out is suspended at a send, in a state where the two maps are
\* mutual inverses without empty sets, leaves them so.
C14_RegistryInvariantUnderFanOut ==
    [][(FanOutInProgress /\ RegistryInvariant /\ RegistryOp)
          => RegistryInvariant']_vars

\* C15: every frame handed to the decoder is made of consecutive bytes of
\* one connection.
C15_FramesOfOneConnection ==
    \A i \in DOMAIN frames :
        \A j \in 1..(Len(frames[i]) - 1) :
            /\ frames[i][j + 1][1] = frames[i][j][1]
            /\ frames[i][j + 1][2] = frames[i][j][2] + 1

\* C16: when the fan-out of a packet is suspended at the send to the client
\* whose send never completes, and other subscribers are still to be served,
\* the send to another subscriber is eventually made.
C16_OthersStillReceive ==
    (hm.pc = "send" /\ hm.to = SlowClient /\ hm.rest # <<>>)
        ~> (hm.pc = "send" /\ hm.to # SlowClient)

\* C17: once the shutdown tasks have run, token_subscribers and
\* client_subscriptions are empty, ws_connections is empty, and every
\* WebSocketApp has had close() called or its thread is over.
C17_ShutdownLeavesNothing ==
    terminated =>
        /\ token_subscribers = EmptyDict
        /\ client_subscriptions = EmptyDict
        /\ ws_connections = EmptyDict
        /\ \A w \in DOMAIN sockets :
               sockets[w].close_called \/ sockets[w].state = "closed"

\* A packet that carries a price: an LTP packet with a positive rate, or a
\* DayOHLC packet.
CarriesPrice(packet) ==
    \/ packet.type = "LTP" /\ DictGet(packet, "ltp_rate", 0) > 0
    \/ packet.type = "DayOHLC"

\* C18: a step in which handle_market_data takes up a price-carrying packet
\* leaves the packet's symbol with a cached price, and a step that changes
\* the cached price of a symbol is the processing of an LTP or DayOHLC packet
\* that resolves to the symbol.
C18_PriceCacheWriters ==
    [][/\ (/\ hm' # hm
           /\ hm'.pc # "idle"
           /\ hm'.packets # hm.packets
           /\ CarriesPrice(Head(hm'.packets)))
          => hm'.symbol \in DOMAIN last_prices'
       /\ \A t \in Symbols :
              DictGet(last_prices', t, 0) # DictGet(last_prices, t, 0)
                  => /\ hm'.pc # "idle"
                     /\ hm'.symbol = t
                     /\ Head(hm'.packets).type \in {"LTP", "DayOHLC"}]_vars

\* C19: a step in which handle_market_data reaches the first send_text for a
\* packet is a step after which the packet's symbol has a non-empty
\* subscriber set: for a symbol whose set is empty or absent when the packet
\* is looked up, no send is started.
C19_NoSubscribersNoWrite ==
    [][(/\ hm' # hm
        /\ hm'.pc = "send"
        /\ (hm.pc # "send" \/ hm'.packets # hm.packets))
          => DictGet(token_subscribers', hm'.symbol, {}) # {}]_vars

\* An LTP packet is being processed (its price is cached, the database write
\* is awaited) for a symbol that has no subscriber set while clients are
\* connected.
C19_Witness ==
    /\ hm.pc = "db"
    /\ hm.symbol \in DOMAIN last_prices
    /\ hm.symbol \notin DOMAIN token_subscribers
    /\ active_connections # {}

\* C20: every packet handed to the decoder whose decoding does not raise is
\* decoded and passed on, whatever packets came before it in the same
\* message.
C20_DecodeErrorDropsOneFrame ==
    decoded = SelectSeq(frames, LAMBDA f : ~Raises(f))

\* The message types _parse_websocket_packets dispatches.
KnownTypes == {"A", "B", "C", "D", "E", "F", "G", "1"}

\* A sequence without its i-th element.
Without(seq, i) == SubSeq(seq, 1, i - 1) \o SubSeq(seq, i + 1, Len(seq))

\* C21: a packet whose header decodes and whose message type is none of
\* 'A', 'B'..'F', 'G', '1' adds no call and ends nothing: the calls made for
\* the message are those made for the message without that packet.
C21_UnknownTypeTolerated ==
    \A i \in DOMAIN parsed.message :
        (~HeaderRaises(parsed.message[i]) /\ parsed.message[i].msg_type \notin KnownTypes)
            => parsed.calls = ParseWebsocketPackets(Without(parsed.message, i))

\* A message of a packet of type 'Z' followed by an LTP packet was parsed:
\* the one call made is the broadcast of the LTP packet.
C21_Witness ==
    /\ Len(parsed.message) = 2
    /\ parsed.message[1].msg_type = "Z"
    /\ parsed.message[2].msg_type = "A"
    /\ Len(parsed.calls) = 1
    /\ parsed.calls[1].data_type = "LTP"

\* The heartbeat packets (type '1') of a message.
HeartbeatsIn(message) == SelectSeq(message, LAMBDA h : h.msg_type = "1")

\* C22: a step in which a socket receives a message appends to the frames
\* sent on that socket one heartbeat reply for every packet of type '1' in
\* the message.
C22_HeartbeatAnswered ==
    [][(parsed' # parsed /\ parsed'.socket # 0)
          => LET w == parsed'.socket
             IN sockets'[w].sent =
                    sockets[w].sent
                        \o [i \in 1..Len(HeartbeatsIn(parsed'.message)) |-> HeartbeatFrame]]_vars

\* C23: a step in which on_error runs for a socket creates no WebSocketApp:
\* the error callback opens no connection itself.
C23_NoDirectReconnect ==
    [][\A w \in DOMAIN sockets :
          (sockets[w].state # "errored" /\ sockets'[w].state = "errored")
              => Len(sockets') = Len(sockets)]_vars

\* C24: on every socket, each register frame and each heartbeat reply comes
\* after the login frame of that socket.
C24_LoginFirst ==
    \A w \in DOMAIN sockets :
        \A i \in DOMAIN sockets[w].sent :
            sockets[w].sent[i].msg_type \in {"D", "1"}
                => \E j \in 1..(i - 1) : sockets[w].sent[j].msg_type = "Q"

\* The scrip codes for which a register frame (add flag 1) was sent on a
\* socket; the service sends no frame with the flag cleared.
RegisterFramesSent(socket) ==
    {f.script : f \in {g \in SentOn(socket) : g.msg_type = "D"}}

\* C25: for every account with a connection, the scrip codes recorded as
\* registered are those for which a register frame was sent on the
\* connection.
C25_WireRegistrationSet ==
    \A a \in DOMAIN ws_connections :
        RegisteredOnWire(Sessions, a) = RegisterFramesSent(sockets[ws_connections[a]])

\* The packets of a suspended handle_market_data call that come after the
\* one being handled and carry a positive price for a cached token.
PricedAhead ==
    {i \in 2..Len(hm.packets) :
        /\ hm.packets[i].scrip_code \in DOMAIN token_cache
        /\ hm.packets[i].type = "LTP"
        /\ ~ComparisonRaises(hm.packets[i].ltp_rate)
        /\ hm.packets[i].ltp_rate > 0}

\* C26: a handle_market_data call does not return while a later packet of
\* its batch that carries a positive price for a cached token is unhandled
\* (handling such a packet suspends the call at the database update).
C26_RestOfBatchHandled ==
    [][(hm.pc # "idle" /\ PricedAhead # {}) => hm'.pc # "idle"]_vars

\* The bytes of the emitted frames followed by the bytes held on the queue.
Accounted == Concat(frames) \o message_queue

\* C27: on one connection, the bytes of the emitted frames and of the queue
\* are, without repetition, exactly the bytes received so far, and every
\* emitted frame is 30 bytes long.
C27_ByteConservation ==
    /\ Len(Accounted) = received["A1"]
    /\ {Accounted[i] : i \in DOMAIN Accounted}
           = {<<"A1", i>> : i \in 1..received["A1"]}
    /\ \A k \in DOMAIN frames : Len(frames[k]) = ResponsePacketLength

C27_Witness ==
    /\ Len(frames) >= 2
    /\ message_queue # <<>>
    /\ \E k \in DOMAIN frames : frames[k][1][2] % ResponsePacketLength # 1

\* Every header of the parsed message decodes.
HeadersDecode == \A i \in DOMAIN parsed.message : ~HeaderRaises(parsed.message[i])

\* The broadcast calls of the parsed message with a data type in 'types',
\* and the headers of the message with a message type in 'msg_types'.
CallsOf(types) ==
    SelectSeq(parsed.calls,
              LAMBDA c : c.call = "_broadcast_market_data" /\ c.data_type \in types)

HeadersOf(msg_types) == SelectSeq(parsed.message, LAMBDA h : h.msg_type \in msg_types)

\* The exchange name of an exchange code and a scrip code.
Resolved(code, scrip) ==
    IF code = "N"
    THEN IF scrip <= 34999 \/ scrip \in 888801..888820 THEN "NSE" ELSE "NSEFO"
    ELSE IF code = "B" THEN "BSE"
    ELSE IF code = "M" THEN "MCX"
    ELSE IF code = "D" THEN "NCDEX"
    ELSE IF code = "C" THEN "NSECD"
    ELSE IF code = "G" THEN "BSEFO"
    ELSE code

\* C28: the LTP packets decoded from a message whose headers decode carry,
\* one for each frame of type 'A' and in order, the scrip code of the frame
\* and the exchange name resolved from its exchange code and scrip code.
C28_ExchangeNameResolved ==
    HeadersDecode =>
        LET calls == CallsOf({"LTP"})
            hs == HeadersOf({"A"})
        IN /\ Len(calls) = Len(hs)
           /\ \A i \in DOMAIN hs :
                  /\ calls[i].data.ScripCode = hs[i].scrip
                  /\ calls[i].data.Exchange = Resolved(hs[i].exchange, hs[i].scrip)

\* The LTP frame of 'N' with the last scrip code of the second NSE range
\* was decoded to an NSE packet.
C28_Witness ==
    /\ parsed.message = <<[exchange |-> "N", scrip |-> 888820, msg_type |-> "A"]>>
    /\ Len(parsed.calls) = 1
    /\ parsed.calls[1].data.Exchange = "NSE"

\* C29: the MarketDepth and DayOHLC packets decoded from a message whose
\* headers decode carry the exchange name resolved from the exchange code
\* and scrip code of their frame, as an LTP packet of that header does.
C29_ResolvedInEveryVariant ==
    HeadersDecode =>
        LET calls == CallsOf({"MarketDepth", "DayOHLC"})
            hs == HeadersOf({"B", "C", "D", "E", "F", "G"})
        IN /\ Len(calls) = Len(hs)
           /\ \A i \in DOMAIN hs :
                  /\ calls[i].data.Exchange = Resolved(hs[i].exchange, hs[i].scrip)
                  /\ calls[i].data.Exchange
                         = ParseLtpPacket(hs[i].exchange, hs[i].scrip).Exchange

\* The outcome the dispatch is to have for a frame: the packet variant and,
\* for a depth packet, its level (0 otherwise).
Outcome(kind, level) == [kind |-> kind, level |-> level]

Claimed(h) ==
    IF h.msg_type = "A" THEN Outcome("LTP", 0)
    ELSE IF h.msg_type = "B" THEN Outcome("MarketDepth", 1)
    ELSE IF h.msg_type = "C" THEN Outcome("MarketDepth", 2)
    ELSE IF h.msg_type = "D" THEN Outcome("MarketDepth", 3)
    ELSE IF h.msg_type = "E" THEN Outcome("MarketDepth", 4)
    ELSE IF h.msg_type = "F" THEN Outcome("MarketDepth", 5)
    ELSE IF h.msg_type = "G" THEN Outcome("DayOHLC", 0)
    ELSE IF h.msg_type = "1" THEN Outcome("Heartbeat", 0)
    ELSE Outcome("Unknown", 0)

\* The outcome a call made by the decoder stands for.
OutcomeOf(c) ==
    IF c.call = "_send_heartbeat_response" THEN Outcome("Heartbeat", 0)
    ELSE IF "Level" \in DOMAIN c.data THEN Outcome(c.data_type, c.data.Level)
    ELSE Outcome(c.data_type, 0)

LengthField(bytes) == bytes[2] + 256 * bytes[3]

Int32At(bytes, k) ==
    LET low == bytes[k] + 256 * bytes[k + 1] + 65536 * bytes[k + 2]
                   + 16777216 * (bytes[k + 3] % 128)
    IN IF bytes[k + 3] >= 128 THEN (low - 2147483647) - 1 ELSE low

\* C31: the packet packed last has the type byte of its kind ('Q', 'D',
\* '1'), a length field equal to the number of bytes after it (111, 7, 0),
\* every byte in 0..255; the login packet is 114 bytes long whatever the
\* account id, and the register packet reads back the scrip code and the
\* add flag 1.
C31_RequestFrameRoundTrip ==
    packed.of # None =>
        /\ \A i \in DOMAIN packed.bytes : packed.bytes[i] \in 0..255
        /\ LengthField(packed.bytes) = Len(packed.bytes) - 3
        /\ packed.of = "_send_login_packet" =>
               /\ packed.bytes[1] = 81
               /\ LengthField(packed.bytes) = 111
               /\ Len(packed.bytes) = 114
        /\ packed.of = "register_token_for_updates" =>
               /\ packed.bytes[1] = 68
               /\ LengthField(packed.bytes) = 7
               /\ Int32At(packed.bytes, 6) = packed.args[2]
               /\ packed.bytes[10] = 1
        /\ packed.of = "_send_heartbeat_response" =>
               /\ packed.bytes[1] = 49
               /\ LengthField(packed.bytes) = 0

\* The register packet of the most negative scrip code was packed.
C31_Witness ==
    /\ packed.of = "register_token_for_updates"
    /\ packed.args[2] = -2147483647 - 1
    /\ SubSeq(packed.bytes, 6, 9) = <<0, 0, 0, 128>>

\* The packet has no scrip code, or one that the token cache does not hold.
Unresolvable(packet) ==
    "scrip_code" \notin DOMAIN packet \/ packet.scrip_code \notin DOMAIN token_cache

\* C32: when a suspended handle_market_data call moves on from a packet that
\* is followed by an unresolvable packet, the call and the price cache come
\* to be what handling the packets behind the unresolvable one makes them:
\* that packet changes no price, is delivered to nobody, and does not end
\* the batch.
C32_UnresolvableSkipped ==
    [][(/\ hm.pc # "idle"
        /\ hm'.packets # hm.packets
        /\ Len(hm.packets) >= 2
        /\ Unresolvable(hm.packets[2]))
          => \E o \in ClientOrders :
                 [hm |-> hm', last_prices |-> last_prices']
                     = HmLoop(SubSeq(hm.packets, 3, Len(hm.packets)), token_cache,
                              last_prices, token_subscribers', active_connections', o)]_vars

\* The third packet of a batch is at its database update: the call went
\* past the unresolvable second packet.
C32_Witness ==
    /\ hm.pc = "db"
    /\ Len(hm.packets) = 1
    /\ hm.symbol \in DOMAIN last_prices

\* C33: whenever no _process_websocket_message call is in progress on any
\* connection thread, the shared queue holds fewer than 30 bytes.
C33_QueueBelowThirtyAtRest ==
    (\A a \in FeedAccounts : threads[a].pc = "idle")
        => Len(message_queue) < PartialPacketLength

\* The sockets of an account whose transport is open and whose thread hands
\* the frames it receives to on_message.
Receiving(account) ==
    {w \in DOMAIN sockets :
        /\ sockets[w].account = account
        /\ sockets[w].state \in {"open", "active"}
        /\ ~sockets[w].close_called}

\* C34: at most one socket of an account is open and receiving.
C34_SingleLiveConnection ==
    \A a \in FeedAccounts : Cardinality(Receiving(a)) <= 1

\* A client is in the subscriber set of a symbol exactly when the symbol is
\* in the subscription set of the client.
MutualInverses ==
    \A c \in Clients, t \in AskedSymbols :
        c \in DictGet(token_subscribers, t, {})
            <=> t \in DictGet(client_subscriptions, c, {})

\* C35: a connect call made in a state where token_subscribers and
\* client_subscriptions are mutual inverses leaves them mutual inverses.
C35_ConnectKeepsInverses ==
    [][(MutualInverses /\ \E c \in Clients : connect(c)) => MutualInverses']_vars

\* C36: a step in which the send_text awaited by the fan-out of
\* handle_market_data raises leaves the client it was sent to in none of
\* active_connections, client_subscriptions and the subscriber sets of
\* token_subscribers.
C36_FailedSendEvicts ==
    [][(\E o \in ClientOrders : hm_send_done(FALSE, o))
          => LET c == hm.to
             IN /\ c \notin active_connections'
                /\ c \notin DOMAIN client_subscriptions'
                /\ \A t \in DOMAIN token_subscribers' : c \notin token_subscribers'[t]]_vars

\* C37: broadcast_to_all never ends with an error.
C37_BroadcastToAllCompletes == ba.pc # "raised"

\* C38: every value stored in last_prices is greater than 0.
C38_CachedPricesPositive ==
    \A t \in DOMAIN last_prices : last_prices[t] > 0

\* An LTP packet with the price 0 is being delivered for a symbol whose
\* cached price is still the 250 of an earlier poll.
C38_Witness ==
    /\ hm.pc = "send"
    /\ Head(hm.packets).ltp_rate = 0
    /\ hm.symbol \in DOMAIN last_prices
    /\ last_prices[hm.symbol] = 250

\* The loop tasks of a kind that are running in the scheduler state sc.
RunningTasks(sc, kind) ==
    {t \in DOMAIN sc.tasks : sc.tasks[t].kind = kind /\ sc.tasks[t].state = "running"}

\* C39: when stop_portfolio_scheduler returns no portfolio loop task is
\* running, and when stop_market_data_scheduler returns no market-data loop
\* task is running with the running flag set.
C39_StopIsComplete ==
    [][/\ stop_portfolio_scheduler => RunningTasks(sched', "portfolio") = {}
       /\ stop_market_data_scheduler
              => (sched'.running => RunningTasks(sched', "market_data") = {})]_vars

\* C40: a market-data loop never ends by itself: a market-data loop task
\* that is no longer running was cancelled.
C40_MarketLoopRunsUntilStopped ==
    \A t \in DOMAIN sched.tasks :
        sched.tasks[t].kind = "market_data" => sched.tasks[t].state # "finished"

====
